---- MODULE Spec2Model ----
(***************************************************************************)
(* Model of the hamming_pipeline repository: the Hamming(7,4)-style codec  *)
(* and bit interleaver of mmcp-impl/src/coder.rs, the draft interleaver of *)
(* mmcp-student_impl/src/coder.rs, the residual-error computation of       *)
(* mmcp/src/analytics.rs and the runner of mmcp-identity/src/main.rs.      *)
(*                                                                         *)
(* Bytes are u8 values 0..255.  Sequences are 1-based here and 0-based in  *)
(* the source, so source index j is element j + 1.                         *)
(***************************************************************************)
EXTENDS Integers, Sequences, FiniteSets, TLC

----------------------------------------------------------------------------
(* Bounds of the model                                                     *)

MaxData == 4        \* longest input byte sequence fed to encode_data
MaxSegs == 10       \* longest codeword sequence fed to interleave_segments
MaxBurst == 8       \* longest run of consecutive flipped transmitted bits
MaxFile == 2        \* longest original / result file read by analyze
MaxConfigs == 3     \* most channel configurations returned by channels()

----------------------------------------------------------------------------
(* u8 arithmetic                                                           *)

Bit(x, i) == (x \div (2 ^ i)) % 2

Shr(x, n) == x \div (2 ^ n)

\* u8 << n for n < 8: the bits shifted out of the byte are lost.
Shl(x, n) == (x * (2 ^ n)) % 256

\* Bitwise operators on single bits.
and1(x, y) == x * y

or1(x, y) == x + y - x * y

xor1(x, y) == (x + y) % 2

\* Bitwise operators on u8, a nibble at a time.
AndNibbles ==
    [a \in 0..15 |-> [b \in 0..15 |->
        and1(Bit(a, 0), Bit(b, 0)) + 2 * and1(Bit(a, 1), Bit(b, 1))
            + 4 * and1(Bit(a, 2), Bit(b, 2)) + 8 * and1(Bit(a, 3), Bit(b, 3))]]

OrNibbles ==
    [a \in 0..15 |-> [b \in 0..15 |->
        or1(Bit(a, 0), Bit(b, 0)) + 2 * or1(Bit(a, 1), Bit(b, 1))
            + 4 * or1(Bit(a, 2), Bit(b, 2)) + 8 * or1(Bit(a, 3), Bit(b, 3))]]

XorNibbles ==
    [a \in 0..15 |-> [b \in 0..15 |->
        xor1(Bit(a, 0), Bit(b, 0)) + 2 * xor1(Bit(a, 1), Bit(b, 1))
            + 4 * xor1(Bit(a, 2), Bit(b, 2)) + 8 * xor1(Bit(a, 3), Bit(b, 3))]]

BitAnd(a, b) ==
    16 * AndNibbles[a \div 16][b \div 16] + AndNibbles[a % 16][b % 16]

BitOr(a, b) ==
    16 * OrNibbles[a \div 16][b \div 16] + OrNibbles[a % 16][b % 16]

BitXor(a, b) ==
    16 * XorNibbles[a \div 16][b \div 16] + XorNibbles[a % 16][b % 16]

\* u8::count_ones
count_ones(x) ==
    Bit(x, 0) + Bit(x, 1) + Bit(x, 2) + Bit(x, 3)
        + Bit(x, 4) + Bit(x, 5) + Bit(x, 6) + Bit(x, 7)

----------------------------------------------------------------------------
(* Codec: one byte -> two codewords (encode_data, loop body)               *)

segment_up(byte) ==
    LET p1 == BitXor(BitXor(BitAnd(Shr(byte, 7), 1), BitAnd(Shr(byte, 6), 1)),
                     BitAnd(Shr(byte, 4), 1))
        p2 == BitXor(BitXor(BitAnd(Shr(byte, 7), 1), BitAnd(Shr(byte, 5), 1)),
                     BitAnd(Shr(byte, 4), 1))
        p4 == BitXor(BitXor(BitAnd(Shr(byte, 6), 1), BitAnd(Shr(byte, 5), 1)),
                     BitAnd(Shr(byte, 4), 1))
    IN  BitOr(BitOr(BitOr(BitOr(Shl(BitAnd(byte, 128), 6), Shr(byte, 4)),
                          Shl(p1, 7)),
                    Shl(p2, 2)),
              Shl(p4, 1))

segment_low(byte) ==
    LET p1 == BitXor(BitXor(BitAnd(Shr(byte, 3), 1), BitAnd(Shr(byte, 2), 1)),
                     BitAnd(byte, 1))
        p2 == BitXor(BitXor(BitAnd(Shr(byte, 3), 1), BitAnd(Shr(byte, 1), 1)),
                     BitAnd(byte, 1))
        p4 == BitXor(BitXor(BitAnd(Shr(byte, 6), 1), BitAnd(Shr(byte, 1), 1)),
                     BitAnd(byte, 1))
    IN  BitOr(BitOr(BitOr(BitOr(BitAnd(byte, 15), Shl(BitAnd(byte, 8), 3)),
                          Shl(p1, 7)),
                    Shl(p2, 2)),
              Shl(p4, 1))

\* The segments vector encode_data hands to the interleaver: two pushes
\* per input byte, for the first n bytes of data.
RECURSIVE push_segments(_, _)
push_segments(data, n) ==
    IF n = 0 THEN <<>>
    ELSE Append(Append(push_segments(data, n - 1), segment_up(data[n])),
                segment_low(data[n]))

Segments(data) == push_segments(data, Len(data))

----------------------------------------------------------------------------
(* Decoder helpers                                                         *)

\* XOR of the indices i in 0..6 whose bit is set.
RECURSIVE ErrorIndexFrom(_, _, _)
ErrorIndexFrom(byte, i, error_index) ==
    IF i >= 7 THEN error_index
    ELSE ErrorIndexFrom(byte, i + 1,
             IF BitAnd(byte, Shl(1, i)) # 0 THEN BitXor(error_index, i)
                                           ELSE error_index)

get_error_index(byte) == ErrorIndexFrom(byte, 0, 0)

get_info_bits(byte) ==
    BitOr(BitOr(BitOr(BitOr(0, BitAnd(Shr(byte, 5), 1)),
                      BitAnd(Shr(byte, 3), 1)),
                BitAnd(Shr(byte, 2), 1)),
          BitAnd(Shr(byte, 1), 1))

\* Syndrome correction followed by data-bit extraction, as decode_data
\* applies it to one received codeword.
info_bits_of(received_byte) ==
    LET error_index == get_error_index(received_byte)
    IN  IF error_index # 0
        THEN get_info_bits(BitXor(received_byte, Shl(1, error_index)))
        ELSE get_info_bits(received_byte)

----------------------------------------------------------------------------
(* Builds.  A u8 subtraction or addition that overflows panics in a build  *)
(* with overflow checks (cargo's dev profile) and wraps in one without     *)
(* (cargo's release profile), where a shift amount is also masked to the   *)
(* low three bits.  An out-of-range index panics in both.                  *)

Builds == {"debug", "release"}

Crates == {"mmcp-impl", "mmcp-student_impl"}

Panic(kind) == [fault |-> kind, out |-> <<>>, byte |-> 0, count |-> 0]

\* u8 << (7 - count) in a build without overflow checks.
WrappedShift(count) == ((7 - count) % 256) % 8

----------------------------------------------------------------------------
(* mmcp-impl: interleave_segments                                          *)

\* The nested for loops of one pass of the while loop: for_i is the loop
\* over the bit index i in 0..7 (exclusive), for_j the loop over j in
\* processed..blocks.  st holds interleaved_byte, count and the interleave
\* vector, which the inner loop pushes to when count reaches 7.
RECURSIVE interleave_for_j(_, _, _, _, _)
interleave_for_j(segments, i, j, st, build) ==
    IF j >= Len(segments) \/ st.fault # "none" THEN st
    ELSE IF st.count > 7 /\ build = "debug" THEN Panic("overflow")
    ELSE IF st.count = 255 /\ build = "debug" THEN Panic("overflow")
    ELSE LET b == BitOr(st.byte,
                        Shl(BitAnd(Shr(segments[j + 1], 7 - i), 1),
                            WrappedShift(st.count)))
             c == (st.count + 1) % 256
         IN  interleave_for_j(segments, i, j + 1,
                 IF c = 7
                 THEN [fault |-> "none", out |-> Append(st.out, b),
                       byte |-> 0, count |-> c]
                 ELSE [fault |-> "none", out |-> st.out,
                       byte |-> b, count |-> c],
                 build)

RECURSIVE interleave_for_i(_, _, _, _, _)
interleave_for_i(segments, processed, i, st, build) ==
    IF i >= 7 \/ st.fault # "none" THEN st
    ELSE interleave_for_i(segments, processed, i + 1,
                          interleave_for_j(segments, i, processed, st, build),
                          build)

RECURSIVE interleave_while(_, _, _, _)
interleave_while(segments, processed, interleave, build) ==
    IF processed >= Len(segments)
    THEN [fault |-> "none", out |-> interleave]
    ELSE LET r == interleave_for_i(segments, processed, 0,
                      [fault |-> "none", out |-> interleave,
                       byte |-> 0, count |-> 0], build)
         IN  IF r.fault # "none" THEN [fault |-> r.fault, out |-> <<>>]
             ELSE interleave_while(segments, processed + 8,
                                   Append(r.out, r.byte), build)

\* The padding bytes are pushed to the output vector before the loop.
RECURSIVE zeros(_)
zeros(n) == IF n = 0 THEN <<>> ELSE Append(zeros(n - 1), 0)

interleave_segments(segments, build) ==
    LET blocks == Len(segments)
        padding == IF blocks % 8 # 0 THEN 8 - (blocks % 8) ELSE 0
    IN  interleave_while(segments, 0, zeros(padding), build)

----------------------------------------------------------------------------
(* mmcp-impl: uninterleave_data                                            *)

RECURSIVE uninterleave_for_j(_, _, _, _, _)
uninterleave_for_j(data, i, j, st, build) ==
    IF j >= Len(data) \/ st.fault # "none" THEN st
    ELSE IF st.count > 7 /\ build = "debug" THEN Panic("overflow")
    ELSE IF st.count = 255 /\ build = "debug" THEN Panic("overflow")
    ELSE LET b == BitOr(st.byte,
                        Shl(BitAnd(Shr(data[j + 1], 7 - i), 1),
                            WrappedShift(st.count)))
             c == (st.count + 1) % 256
         IN  uninterleave_for_j(data, i, j + 1,
                 IF c = 7
                 THEN [fault |-> "none", out |-> Append(st.out, b),
                       byte |-> 0, count |-> c]
                 ELSE [fault |-> "none", out |-> st.out,
                       byte |-> b, count |-> c],
                 build)

RECURSIVE uninterleave_for_i(_, _, _, _, _)
uninterleave_for_i(data, processed, i, st, build) ==
    IF i >= 7 \/ st.fault # "none" THEN st
    ELSE uninterleave_for_i(data, processed, i + 1,
                          uninterleave_for_j(data, i, processed, st, build),
                          build)

\* processed advances by count; a count that wrapped to 0 never advances it.
RECURSIVE uninterleave_while(_, _, _, _)
uninterleave_while(data, processed, uninterleaved, build) ==
    IF processed >= Len(data)
    THEN [fault |-> "none", out |-> uninterleaved]
    ELSE LET r == uninterleave_for_i(data, processed, 0,
                      [fault |-> "none", out |-> uninterleaved,
                       byte |-> 0, count |-> 0], build)
         IN  IF r.fault # "none" THEN [fault |-> r.fault, out |-> <<>>]
             ELSE IF r.count = 0 THEN [fault |-> "hang", out |-> <<>>]
             ELSE uninterleave_while(data, processed + r.count,
                                     Append(r.out, r.byte), build)

uninterleave_data(data, build) == uninterleave_while(data, 0, <<>>, build)

----------------------------------------------------------------------------
(* mmcp-student_impl: interleave_segments                                  *)

\* The inner loop, which breaks when count reaches 8.  st holds
\* interleaved_byte and count.
RECURSIVE student_for_j(_, _, _, _, _)
student_for_j(segments, i, j, st, build) ==
    IF j >= Len(segments) \/ st.fault # "none" THEN st
    ELSE IF st.count > 7 /\ build = "debug" THEN Panic("overflow")
    ELSE IF st.count = 255 /\ build = "debug" THEN Panic("overflow")
    ELSE LET b == BitOr(st.byte,
                        Shl(BitAnd(Shr(segments[j + 1], 7 - i), 1),
                            WrappedShift(st.count)))
             c == (st.count + 1) % 256
             next == [fault |-> "none", out |-> <<>>, byte |-> b, count |-> c]
         IN  IF c = 8 THEN next
             ELSE student_for_j(segments, i, j + 1, next, build)

\* The outer loop, which breaks when the inner loop left count below 8.
RECURSIVE student_for_i(_, _, _, _, _)
student_for_i(segments, processed, i, st, build) ==
    IF i >= 7 \/ st.fault # "none" THEN st
    ELSE LET r == student_for_j(segments, i, processed, st, build)
         IN  IF r.fault = "none" /\ r.count < 8 THEN r
             ELSE student_for_i(segments, processed, i + 1, r, build)

RECURSIVE student_while(_, _, _, _)
student_while(segments, processed, interleave, build) ==
    IF processed >= Len(segments)
    THEN [fault |-> "none", out |-> interleave]
    ELSE LET r == student_for_i(segments, processed, 0,
                      [fault |-> "none", out |-> <<>>, byte |-> 0, count |-> 0],
                      build)
         IN  IF r.fault # "none" THEN [fault |-> r.fault, out |-> <<>>]
             ELSE IF r.count = 0 THEN [fault |-> "hang", out |-> <<>>]
             ELSE student_while(segments, processed + r.count,
                                Append(interleave, r.byte), build)

student_interleave_segments(segments, build) ==
    student_while(segments, 0, <<>>, build)

----------------
(* encode_data and decode_data                                             *)

\* interleave_segments of the crate that is running.
interleave_of(segments, crate, build) ==
    IF crate = "mmcp-impl" THEN interleave_segments(segments, build)
                           ELSE student_interleave_segments(segments, build)

encode_data(data, crate, build) ==
    interleave_of(Segments(data), crate, build)

\* First loop of decode_data: reads data[i] and data[i + 1] for i = 0, 2,
\* 4, ...; info_byte is assembled and pushed only when i + 1 > data.len().
RECURSIVE decode_pairs(_, _, _)
decode_pairs(data, i, decoded) ==
    IF i >= Len(data) THEN [fault |-> "none", out |-> decoded]
    ELSE LET upper == Shl(info_bits_of(data[i + 1]), 4)
             pushed == IF i + 1 > Len(data) THEN Append(decoded, upper)
                                            ELSE decoded
         IN  IF i + 1 >= Len(data) THEN [fault |-> "index", out |-> <<>>]
             ELSE decode_pairs(data, i + 2, pushed)

\* Second loop of decode_data: one output byte per received byte.
corrected_byte(byte) ==
    LET encoded_byte == BitAnd(byte, 254)
        error_index == get_error_index(encoded_byte)
    IN  IF error_index # 0 THEN BitXor(encoded_byte, Shl(1, error_index))
                           ELSE encoded_byte

decode_data(data) ==
    LET r == decode_pairs(data, 0, <<>>)
    IN  IF r.fault # "none" THEN r
        ELSE [fault |-> "none",
              out |-> r.out \o [k \in 1..Len(data) |-> corrected_byte(data[k])]]

\* decode of mmcp-student_impl passes the stream through unchanged.
student_decode(data) == [fault |-> "none", out |-> data]

decode(data, crate) ==
    IF crate = "mmcp-impl" THEN decode_data(data) ELSE student_decode(data)

----------------------------------------------------------------------------
(* mmcp: analytics::analyze                                                *)

\* zip stops at the end of the shorter stream.
zip_len(input, output) ==
    IF Len(input) <= Len(output) THEN Len(input) ELSE Len(output)

RECURSIVE sum_count_ones(_, _, _)
sum_count_ones(input, output, n) ==
    IF n = 0 THEN 0
    ELSE sum_count_ones(input, output, n - 1)
            + count_ones(BitXor(input[n], output[n]))

\* io is the outcome of opening the two files.
analyze(input, output, io) ==
    IF io # "ok" THEN [ok |-> FALSE, residual_bit_errors |-> 0]
    ELSE [ok |-> TRUE,
          residual_bit_errors |->
              sum_count_ones(input, output, zip_len(input, output))]

IoOutcomes == {"ok", "no_original", "no_result"}

----------------------------------------------------------------------------
(* State                                                                   *)

VARIABLES
    build,          \* overflow checks on ("debug") or off ("release")
    crate,          \* which crate's coder.rs is running
    \* one byte through the codec
    byte,           \* the input byte
    segment,        \* <<segment_up, segment_low>> built by encode_data
    flipped,        \* bit position the channel flipped, -1 for none
    codeword,       \* the two codewords as received
    info,           \* nibbles and info_byte the decoder derives from them
    wpc,
    \* a byte sequence through encode_data, the channel and decode
    data, encoded, received, decoded, cfault, cpc,
    \* a codeword sequence through the interleaver and back
    seq, tx, burst, rx, uninterleaved, ifault, ipc,
    \* analyze
    original, result, io, analytics, apc,
    \* main
    channel_list,   \* what channels() returned
    ci,             \* position of the for loop, 1-based
    ran,            \* positions pipeline_run was called for
    results,        \* the results vector
    reported,       \* what report was given; <<>> before it is called
    report_calls,   \* how often report was called
    exit,           \* "running", "ok" or "err"
    rpc

wordVars == <<byte, segment, flipped, codeword, info, wpc>>
codecVars == <<data, encoded, received, decoded, cfault, cpc>>
ilvVars == <<seq, tx, burst, rx, uninterleaved, ifault, ipc>>
anVars == <<original, result, io, analytics, apc>>
runVars == <<channel_list, ci, ran, results, reported, report_calls, exit, rpc>>
envVars == <<build, crate>>

vars == <<envVars, wordVars, codecVars, ilvVars, anVars, runVars>>

IdleWord ==
    /\ byte = 0 /\ segment = <<>> /\ flipped = -1 /\ codeword = <<>>
    /\ info = <<>> /\ wpc = "idle"

IdleCodec ==
    /\ data = <<>> /\ encoded = <<>> /\ received = <<>> /\ decoded = <<>>
    /\ cfault = "none" /\ cpc = "idle"

IdleIlv ==
    /\ seq = <<>> /\ tx = <<>> /\ burst = <<0, 0>> /\ rx = <<>>
    /\ uninterleaved = <<>> /\ ifault = "none" /\ ipc = "idle"

IdleAn ==
    /\ original = <<>> /\ result = <<>> /\ io = "ok"
    /\ analytics = [ok |-> FALSE, residual_bit_errors |-> 0] /\ apc = "idle"

IdleRun ==
    /\ channel_list = <<>> /\ ci = 1 /\ ran = <<>> /\ results = <<>>
    /\ reported = <<>> /\ report_calls = 0 /\ exit = "running" /\ rpc = "idle"

----------------------------------------------------------------------------
(* One byte through the codec: encode_data's loop body, a channel that     *)
(* flips at most one bit of each codeword, decode_data's first loop body.  *)

EncodeByte ==
    /\ wpc = "start"
    /\ segment' = <<segment_up(byte), segment_low(byte)>>
    /\ wpc' = "encoded"
    /\ UNCHANGED <<byte, flipped, codeword, info>>
    /\ UNCHANGED <<envVars, codecVars, ilvVars, anVars, runVars>>

\* Zero-error channel.
DeliverWords ==
    /\ wpc = "encoded"
    /\ codeword' = segment
    /\ flipped' = -1
    /\ wpc' = "received"
    /\ UNCHANGED <<byte, segment, info>>
    /\ UNCHANGED <<envVars, codecVars, ilvVars, anVars, runVars>>

\* The channel flips bit p of both codewords.
FlipBit ==
    /\ wpc = "encoded"
    /\ \E p \in 0..7 :
        /\ flipped' = p
        /\ codeword' = <<BitXor(segment[1], 2 ^ p), BitXor(segment[2], 2 ^ p)>>
    /\ wpc' = "received"
    /\ UNCHANGED <<byte, segment, info>>
    /\ UNCHANGED <<envVars, codecVars, ilvVars, anVars, runVars>>

DecodeWords ==
    /\ wpc = "received"
    /\ LET upper == info_bits_of(codeword[1])
           lower == info_bits_of(codeword[2])
       IN  info' = [upper |-> upper, lower |-> lower,
                    info_byte |-> BitOr(BitOr(0, Shl(upper, 4)), lower)]
    /\ wpc' = "decoded"
    /\ UNCHANGED <<byte, segment, flipped, codeword>>
    /\ UNCHANGED <<envVars, codecVars, ilvVars, anVars, runVars>>

InitWord ==
    /\ build = "debug" /\ crate = "mmcp-impl"
    /\ byte \in 0..255
    /\ segment = <<>> /\ flipped = -1 /\ codeword = <<>> /\ info = <<>>
    /\ wpc = "start"
    /\ IdleCodec /\ IdleIlv /\ IdleAn /\ IdleRun

NextWord == EncodeByte \/ DeliverWords \/ FlipBit \/ DecodeWords

SpecWord == InitWord /\ [][NextWord]_vars

\* The split of a byte that merge, (upper << 4) | lower, must invert.
upper_nibble(b) == b \div 16

lower_nibble(b) == b % 16

(* C2: single-error correction.  Whenever the channel flipped one bit p in *)
(* 0..7 of the codeword encode_data built for a nibble, syndrome           *)
(* correction (get_error_index, flip the indicated bit) followed by        *)
(* get_info_bits returns that nibble, for the upper and the lower half of  *)
(* every byte.                                                             *)
C2_SingleErrorCorrected ==
    (wpc = "decoded" /\ flipped \in 0..7) =>
        /\ info.upper = upper_nibble(byte)
        /\ info.lower = lower_nibble(byte)

(* C8: encoder and decoder share one codeword layout.  Both codewords      *)
(* encode_data builds for a byte have syndrome 0 under get_error_index,    *)
(* so the decoder leaves an uncorrupted codeword as it is.                 *)
C8_EncodedSyndromeZero ==
    wpc \in {"encoded", "received", "decoded"} =>
        /\ get_error_index(segment[1]) = 0
        /\ get_error_index(segment[2]) = 0

(* C9: data bits are carried intact at fixed positions.  The first         *)
(* codeword depends only on the byte's upper nibble and the second only on *)
(* its lower nibble; get_info_bits of each uncorrupted codeword is that    *)
(* nibble, and (upper << 4) | lower is the byte.                           *)
C9_DataBitsIntact ==
    wpc \in {"encoded", "received", "decoded"} =>
        /\ \A other \in 0..255 :
            /\ upper_nibble(other) = upper_nibble(byte)
                   => segment_up(other) = segment[1]
            /\ lower_nibble(other) = lower_nibble(byte)
                   => segment_low(other) = segment[2]
        /\ get_info_bits(segment[1]) = upper_nibble(byte)
        /\ get_info_bits(segment[2]) = lower_nibble(byte)
        /\ BitOr(Shl(get_info_bits(segment[1]), 4), get_info_bits(segment[2]))
               = byte

----------------------------------------------------------------------------
(* A byte sequence through encode, the channel and decode.                 *)

SampleBytes == {16, 165}

\* Every byte value alone, and short sequences of sample bytes.
DataInputs ==
    {<<>>} \cup {<<b>> : b \in 0..255}
        \cup UNION {[1..n -> SampleBytes] : n \in 2..MaxData}

NoiseMasks == {1, 128, 255}

\* encode: the whole of encode_data, interleaving included.
Encode ==
    /\ cpc = "start"
    /\ LET r == encode_data(data, crate, build)
       IN  /\ encoded' = r.out
           /\ cfault' = r.fault
           /\ cpc' = IF r.fault = "none" THEN "encoded" ELSE "panicked"
    /\ UNCHANGED <<data, received, decoded>>
    /\ UNCHANGED <<envVars, wordVars, ilvVars, anVars, runVars>>

\* Channel: same length as the input; position 0 leaves every byte alone.
Transmit ==
    /\ cpc = "encoded"
    /\ \E pos \in 0..Len(encoded), mask \in NoiseMasks :
        received' = [k \in 1..Len(encoded) |->
                        IF k = pos THEN BitXor(encoded[k], mask)
                                   ELSE encoded[k]]
    /\ cpc' = "received"
    /\ UNCHANGED <<data, encoded, decoded, cfault>>
    /\ UNCHANGED <<envVars, wordVars, ilvVars, anVars, runVars>>

Decode ==
    /\ cpc = "received"
    /\ LET r == decode(received, crate)
       IN  /\ decoded' = r.out
           /\ cfault' = r.fault
           /\ cpc' = IF r.fault = "none" THEN "done" ELSE "panicked"
    /\ UNCHANGED <<data, encoded, received>>
    /\ UNCHANGED <<envVars, wordVars, ilvVars, anVars, runVars>>

InitCodec ==
    /\ build \in Builds /\ crate \in Crates
    /\ data \in DataInputs
    /\ encoded = <<>> /\ received = <<>> /\ decoded = <<>>
    /\ cfault = "none" /\ cpc = "start"
    /\ IdleWord /\ IdleIlv /\ IdleAn /\ IdleRun

NextCodec == Encode \/ Transmit \/ Decode

SpecCodec == InitCodec /\ [][NextCodec]_vars

(* C1: round trip of the whole mmcp-impl pipeline.  For every byte         *)
(* sequence d, decode_data applied to the unchanged output of              *)
(* encode_data(d) returns exactly d.                                       *)
C1_RoundTrip ==
    (crate = "mmcp-impl" /\ cpc = "done" /\ received = encoded) =>
        decoded = data

(* C5: the codec never fails.  encode_data, interleaving included, and     *)
(* decode_data on whatever the channel returns complete without an         *)
(* out-of-range index and without u8 overflow.                             *)
C5_NeverFails == cfault = "none" /\ cpc # "panicked"

----------------------------------------------------------------------------
(* A codeword sequence through interleave_segments, the channel and        *)
(* uninterleave_data.                                                      *)

\* Codeword sequences of every length 0..MaxSegs: constant ones, and one
\* whose codewords all differ.
Patterns == {0, 255, 165, -1}

SeqOf(len, pat) ==
    [k \in 1..len |-> IF pat = -1 THEN (37 * k + 11) % 256 ELSE pat]

SeqInputs == {SeqOf(len, pat) : len \in 0..MaxSegs, pat \in Patterns}

\* Transmitted bit t (0-based, most significant bit of each byte first)
\* is bit 7 - t % 8 of byte t / 8.
RunMask(k, start, len) ==
    LET m(b) == IF 8 * (k - 1) + (7 - b) \in start..(start + len - 1)
                THEN 2 ^ b ELSE 0
    IN  m(0) + m(1) + m(2) + m(3) + m(4) + m(5) + m(6) + m(7)

FlipRun(bytes, start, len) ==
    [k \in 1..Len(bytes) |-> BitXor(bytes[k], RunMask(k, start, len))]

Interleave ==
    /\ ipc = "start"
    /\ LET r == interleave_of(seq, crate, build)
       IN  /\ tx' = r.out
           /\ ifault' = r.fault
           /\ ipc' = IF r.fault = "none" THEN "interleaved" ELSE "panicked"
    /\ UNCHANGED <<seq, burst, rx, uninterleaved>>
    /\ UNCHANGED <<envVars, wordVars, codecVars, anVars, runVars>>

\* Zero-error channel.
Deliver ==
    /\ ipc = "interleaved"
    /\ rx' = tx
    /\ burst' = <<0, 0>>
    /\ ipc' = "received"
    /\ UNCHANGED <<seq, tx, uninterleaved, ifault>>
    /\ UNCHANGED <<envVars, wordVars, codecVars, anVars, runVars>>

\* The channel flips len consecutive transmitted bits from bit start on.
Burst ==
    /\ ipc = "interleaved"
    /\ \E len \in 1..MaxBurst :
        \E start \in 0..(8 * Len(tx) - len) :
            /\ burst' = <<start, len>>
            /\ rx' = FlipRun(tx, start, len)
    /\ ipc' = "received"
    /\ UNCHANGED <<seq, tx, uninterleaved, ifault>>
    /\ UNCHANGED <<envVars, wordVars, codecVars, anVars, runVars>>

\* Only mmcp-impl has uninterleave_data.
Uninterleave ==
    /\ ipc = "received"
    /\ crate = "mmcp-impl"
    /\ LET r == uninterleave_data(rx, build)
       IN  /\ uninterleaved' = r.out
           /\ ifault' = r.fault
           /\ ipc' = IF r.fault = "none" THEN "done" ELSE "panicked"
    /\ UNCHANGED <<seq, tx, burst, rx>>
    /\ UNCHANGED <<envVars, wordVars, codecVars, anVars, runVars>>

InitIlv ==
    /\ build \in Builds /\ crate \in Crates
    /\ seq \in SeqInputs
    /\ tx = <<>> /\ burst = <<0, 0>> /\ rx = <<>> /\ uninterleaved = <<>>
    /\ ifault = "none" /\ ipc = "start"
    /\ IdleWord /\ IdleCodec /\ IdleAn /\ IdleRun

NextIlv == Interleave \/ Deliver \/ Burst \/ Uninterleave

SpecIlv == InitIlv /\ [][NextIlv]_vars

(* C3: interleave and deinterleave are exact inverses.  For every codeword *)
(* sequence, of any length L >= 0, uninterleave_data applied to the        *)
(* unchanged output of interleave_segments is the sequence itself, the     *)
(* padding stripped again.                                                 *)
C3_InterleaveRoundTrip ==
    (crate = "mmcp-impl" /\ ipc = "done" /\ burst[2] = 0) =>
        uninterleaved = seq

(* C4: burst spreading.  For a block of 8 codewords, interleave_segments   *)
(* produces 64 transmitted bits; after a run of k <= 8 consecutive ones    *)
(* is flipped, uninterleave_data yields the 8 codewords with at most k of  *)
(* them changed, each changed one in exactly one bit.                      *)
C4_BurstSpread ==
    (crate = "mmcp-impl" /\ ipc = "done" /\ Len(seq) = 8 /\ burst[2] >= 1) =>
        /\ Len(tx) = 8
        /\ Len(uninterleaved) = 8
        /\ LET differing == {n \in 1..8 : uninterleaved[n] # seq[n]}
           IN  /\ Cardinality(differing) <= burst[2]
               /\ \A n \in differing :
                     count_ones(BitXor(uninterleaved[n], seq[n])) = 1

(* C10: block padding.  interleave_segments returns exactly 8 * ceil(L/8)  *)
(* bytes for a sequence of L codewords, the same bytes it returns for the  *)
(* sequence padded at its tail with zero codewords to a multiple of 8.     *)
C10_BlockPadding ==
    ipc = "interleaved" =>
        LET pad == (8 - (Len(seq) % 8)) % 8
            padded == seq \o [k \in 1..pad |-> 0]
        IN  /\ Len(tx) = 8 * ((Len(seq) + 7) \div 8)
            /\ interleave_of(padded, crate, build).out = tx

----------------------------------------------------------------------------
(* analyze on its own: the two files it reads, and what it returns.        *)

FileBytes == {0, 1, 255}

Files == UNION {[1..n -> FileBytes] : n \in 0..MaxFile}

Analyze ==
    /\ apc = "start"
    /\ \E outcome \in IoOutcomes :
        /\ io' = outcome
        /\ analytics' = analyze(original, result, outcome)
    /\ apc' = "done"
    /\ UNCHANGED <<original, result>>
    /\ UNCHANGED <<envVars, wordVars, codecVars, ilvVars, runVars>>

InitAn ==
    /\ build = "debug" /\ crate = "mmcp-impl"
    /\ original \in Files /\ result \in Files
    /\ io = "ok"
    /\ analytics = [ok |-> FALSE, residual_bit_errors |-> 0]
    /\ apc = "start"
    /\ IdleWord /\ IdleCodec /\ IdleIlv /\ IdleRun

NextAn == Analyze

SpecAn == InitAn /\ [][NextAn]_vars

(* C7: residual-error computation fails on a length mismatch.  With both   *)
(* files readable, analyze returns the sum over every byte position of     *)
(* popcount(original XOR final) when the two sequences have equal length,  *)
(* and fails when their lengths differ.                                    *)
C7_LengthMismatchFails ==
    (apc = "done" /\ io = "ok") =>
        IF Len(original) = Len(result)
        THEN /\ analytics.ok
             /\ analytics.residual_bit_errors
                    = sum_count_ones(original, result, Len(original))
        ELSE ~analytics.ok

----------------------------------------------------------------------------
(* main: one pipeline run and one analysis per channel configuration.      *)

ChannelKinds == {"mild", "harsh"}

ChannelLists == UNION {[1..n -> ChannelKinds] : n \in 0..MaxConfigs}

\* resources/original.mp4, and what a run may have left in result.mp4.
OriginalFile == <<0, 255>>

ResultFiles == {<<0, 255>>, <<1, 255>>, <<1>>}

\* The body of the for loop for the configuration at position st.ci:
\* pipeline_run(..)? then results.push(analyze(..)?).  run_ok tells whether
\* pipeline_run returned Ok, a is what analyze returned.  The skipping
\* variant moves on to the next configuration where ? returns.
main_body_skipping(st, channel, run_ok, a) ==
    IF run_ok /\ a.ok
    THEN [ci |-> st.ci + 1, exit |-> "running",
          results |-> Append(st.results,
                          [config |-> st.ci, channel |-> channel,
                           residual_bit_errors |-> a.residual_bit_errors])]
    ELSE [ci |-> st.ci + 1, exit |-> "running", results |-> st.results]

main_body(st, channel, run_ok, a) ==
    IF ~run_ok THEN [ci |-> st.ci, exit |-> "err", results |-> st.results]
    ELSE IF ~a.ok THEN [ci |-> st.ci, exit |-> "err", results |-> st.results]
    ELSE [ci |-> st.ci + 1, exit |-> "running",
          results |-> Append(st.results,
                          [config |-> st.ci, channel |-> channel,
                           residual_bit_errors |-> a.residual_bit_errors])]

\* color_eyre::install()?
Install ==
    /\ rpc = "start"
    /\ \E ok \in BOOLEAN :
        /\ rpc' = IF ok THEN "loop" ELSE "returned"
        /\ exit' = IF ok THEN "running" ELSE "err"
    /\ UNCHANGED <<channel_list, ci, ran, results, reported, report_calls>>
    /\ UNCHANGED <<envVars, wordVars, codecVars, ilvVars, anVars>>

Iteration ==
    /\ rpc = "loop"
    /\ ci <= Len(channel_list)
    /\ \E run_ok \in BOOLEAN, outcome \in IoOutcomes, file \in ResultFiles :
        LET next == main_body([ci |-> ci, results |-> results],
                              channel_list[ci], run_ok,
                              analyze(OriginalFile, file, outcome))
        IN  /\ ci' = next.ci
            /\ results' = next.results
            /\ exit' = next.exit
            /\ rpc' = IF next.exit = "err" THEN "returned" ELSE "loop"
    /\ ran' = Append(ran, ci)
    /\ UNCHANGED <<channel_list, reported, report_calls>>
    /\ UNCHANGED <<envVars, wordVars, codecVars, ilvVars, anVars>>

\* analytics::report(&results); Ok(())
Report ==
    /\ rpc = "loop"
    /\ ci > Len(channel_list)
    /\ reported' = results
    /\ report_calls' = report_calls + 1
    /\ exit' = "ok"
    /\ rpc' = "returned"
    /\ UNCHANGED <<channel_list, ci, ran, results>>
    /\ UNCHANGED <<envVars, wordVars, codecVars, ilvVars, anVars>>

InitRun ==
    /\ build = "debug" /\ crate = "mmcp-impl"
    /\ channel_list \in ChannelLists
    /\ ci = 1 /\ ran = <<>> /\ results = <<>>
    /\ reported = <<>> /\ report_calls = 0
    /\ exit = "running" /\ rpc = "start"
    /\ IdleWord /\ IdleCodec /\ IdleIlv /\ IdleAn

NextRun == Install \/ Iteration \/ Report

SpecRun == InitRun /\ [][NextRun]_vars

(* C6 as claimed: the runner isolates failures per configuration.  When    *)
(* pipeline_run or analyze fails for a configuration, main records no      *)
(* analytics for it, still runs every remaining configuration, and still   *)
(* reports the records of those that succeeded, in configuration order.    *)
C6_IsolatesFailures ==
    (rpc = "returned" /\ ran # <<>>) =>
        /\ ran = [k \in 1..Len(channel_list) |-> k]
        /\ report_calls = 1
        /\ reported = results
        /\ \A n \in 1..Len(reported) : \A m \in 1..Len(reported) :
               n < m => reported[n].config < reported[m].config

(* C6 as amended: main stops at the first failure.  When pipeline_run or   *)
(* analyze fails for a configuration, main records no analytics for it,    *)
(* runs no later configuration and returns the error without reporting;    *)
(* when nothing fails it runs every configuration and reports one record   *)
(* per configuration, in the order the configurations were supplied.       *)
C6_StopsAtFirstFailure ==
    rpc = "returned" =>
        /\ \A n \in 1..Len(results) :
               /\ results[n].config = n
               /\ results[n].channel = channel_list[n]
        /\ IF exit = "ok"
           THEN /\ ran = [k \in 1..Len(channel_list) |-> k]
                /\ Len(results) = Len(channel_list)
                /\ report_calls = 1
                /\ reported = results
           ELSE /\ exit = "err"
                /\ report_calls = 0
                /\ reported = <<>>
                /\ \/ ran = <<>> /\ results = <<>>
                   \/ ran = [k \in 1..(Len(results) + 1) |-> k]

\* A configuration failed after one had succeeded and before the last one.
C6_Witness ==
    /\ rpc = "returned"
    /\ exit = "err"
    /\ Len(results) >= 1
    /\ Len(ran) < Len(channel_list)

====
